---------------------------- MODULE Spec2Model ----------------------------
(***************************************************************************)
(* Model of word2vec_pipeline/utils/data_utils.py: the artifact store      *)
(* helpers (load_h5_file, touch_h5, get_h5save_object, save_h5,            *)
(* get_score_methods), the keyed table loader (load_ORG_data) and the      *)
(* document vector assembler (load_document_vectors).                      *)
(*                                                                         *)
(* Four specifications share the module, one per component:                *)
(*   SpecAsm     load_document_vectors over a group of shards              *)
(*   SpecCsv     load_ORG_data over a directory of CSV files               *)
(*   SpecStore   save_h5 / load_h5_file on one container                   *)
(*   SpecWriters touch_h5 / get_h5save_object / save_h5 by concurrent      *)
(*               workers, and the readers' `with` blocks                   *)
(* Each leaves the variables of the other components at their initial      *)
(* values.                                                                 *)
(***************************************************************************)
EXTENDS Integers, Sequences, FiniteSets, TLC

VARIABLES
    h5,         \* assembler: the score store, group name -> sequence of shards
    enum,       \* assembler: the order in which g.keys() enumerated the shards
    asm,        \* assembler: outcome of load_document_vectors
    tiebreak,   \* the relative order in which this build's sort leaves equal keys
    files,      \* loader: the CSV files of the import directory, by name
    csv,        \* loader: the state of one load_ORG_data call
    store,      \* store: the datasets of one container, name -> dataset
    wr,         \* store: the save_h5 call in progress, or the last one that failed
    last,       \* store: per name, the most recent save_h5 call on it (history)
    ld,         \* store: outcome of the last load_h5_file call
    disk,       \* writers: the store file, [exists, groups]
    proc,       \* writers: each worker's position in get_h5save_object / save_h5
    rd          \* writers: the reader's position in its `with` block

asmVars == <<h5, enum, asm>>
csvVars == <<files, csv>>
storeVars == <<store, wr, last, ld>>
wrVars == <<disk, proc, rd>>
vars == <<h5, enum, asm, tiebreak, files, csv, store, wr, last, ld, disk, proc, rd>>

--------------------------------------------------------------------------
(* Bounds *)

MaxShards == 2      \* shards under the score_method group
MaxRows == 2        \* _ref entries, and vector rows, over all shards of the group
MaxRef == 2         \* _ref values are 1..MaxRef
MaxFiles == 2       \* CSV files in the import directory
MaxCsvRows == 3     \* rows over all CSV files
MaxLen == 2         \* length of an array written with save_h5
MaxArgs == 2        \* dataset names passed to load_h5_file
NumWorkers == 2     \* concurrent workers writing to the store file

--------------------------------------------------------------------------
(* numpy helpers *)

\* All permutations of 1..n, as sequences.
Perms(n) == {p \in [1..n -> 1..n] : \A i, j \in 1..n : p[i] = p[j] => i = j}

\* The positions 1..n in order.
Identity(n) == [i \in 1..n |-> i]

RECURSIVE Concat(_, _, _)
\* np.hstack / np.vstack of arrays[order[1]], arrays[order[2]], ... from position i on.
Concat(arrays, order, i) ==
    IF i > Len(order) THEN <<>>
    ELSE arrays[order[i]] \o Concat(arrays, order, i + 1)

\* np.argsort is called with the default kind='quicksort', which is not stable:
\* the order it leaves equal keys in is the build's, not the caller's.  A build
\* either keeps equal keys in their input order or reverses them.
TieBreaks == {"first", "last"}

\* Position i comes before position j in the sorted order of a.
Before(a, tb, i, j) ==
    \/ a[i] < a[j]
    \/ a[i] = a[j] /\ (IF tb = "first" THEN i < j ELSE i > j)

\* Mutant of Argsort: no sorting at all (the identity permutation).
Argsort_Identity(a, tb) == [i \in 1..Len(a) |-> i]

\* np.argsort(a): the permutation that puts a in ascending order.
Argsort(a, tb) ==
    CHOOSE p \in Perms(Len(a)) :
        \A i, j \in 1..Len(a) : i < j => Before(a, tb, p[i], p[j])

\* Fancy indexing a[idx].
Take(a, idx) == [i \in 1..Len(idx) |-> a[idx[i]]]

\* idx holds a position outside a: a[idx] raises IndexError.
OutOfBounds(a, idx) == \E i \in 1..Len(idx) : idx[i] > Len(a)

--------------------------------------------------------------------------
(* Document Vector Assembler: load_document_vectors *)

ScoreMethods == {"unigram", "simple"}

\* A shard is a group holding the dataset "_ref" and the dataset named by
\* vector_key ("VX" if use_reduced else "V"); `vecs` is that dataset.  A vector is
\* represented by the place it was stored at, <<shard, row>>, so that the rows of
\* the result can be traced back to the rows of the shards.
RefArrays(n) == UNION {[1..k -> 1..MaxRef] : k \in 0..n}

Vectors(s, n) == [r \in 1..n |-> <<s, r>>]

RECURSIVE ShardSeqs(_, _, _, _)
\* The sequences of n shards, named s, s+1, ..., with at most `nrefs` _ref
\* entries and at most `nvecs` vector rows in all.  A shard's two arrays need not
\* have the same length.
ShardSeqs(s, n, nrefs, nvecs) ==
    IF n = 0 THEN {<<>>}
    ELSE UNION {
           UNION {
             {<<[refs |-> refs, vecs |-> Vectors(s, nv)]>> \o rest :
                 rest \in ShardSeqs(s + 1, n - 1, nrefs - Len(refs), nvecs - nv)} :
             nv \in 0..nvecs} :
           refs \in RefArrays(nrefs)}

\* Mutant of ShapeCheck: the assertion is missing.
ShapeCheck_Missing(X, _refs) == TRUE

\* assert(X.shape[0] == _refs.size)
ShapeCheck(X, _refs) == Len(X) = Len(_refs)

\* _refs = _refs[sort_idx]
SortedRefs(_refs, sort_idx) == Take(_refs, sort_idx)

\* Mutant of SortedX: the matrix is left in stacking order.
SortedX_Unsorted(X, sort_idx) == X

\* X = np.vstack(X)[sort_idx]
SortedX(X, sort_idx) == Take(X, sort_idx)

Failure(why) == [status |-> why, _refs |-> <<>>, docv |-> <<>>]

\* The outcome of load_document_vectors(score_method) on store `f` when g.keys()
\* enumerates the shards in `order`.  The two assertions of the code fail as
\* "UnknownScoreMethod" (line 210) and "ShapeMismatch" (line 218).
LoadResult(f, score_method, order, tb) ==
    IF score_method \notin DOMAIN f THEN Failure("UnknownScoreMethod")
    ELSE LET g == f[score_method]
             _refs == Concat([k \in 1..Len(g) |-> g[k].refs], order, 1)
             X == Concat([k \in 1..Len(g) |-> g[k].vecs], order, 1)
             sort_idx == Argsort(_refs, tb)
         IN  IF ~ShapeCheck(X, _refs) THEN Failure("ShapeMismatch")
             ELSE IF OutOfBounds(X, sort_idx) THEN Failure("IndexError")
             ELSE [status |-> "ok",
                   _refs |-> SortedRefs(_refs, sort_idx),
                   docv |-> SortedX(X, sort_idx)]

Idle == [status |-> "idle", _refs |-> <<>>, docv |-> <<>>]

\* No dataset: the place of a dataset that is not there.
NoDataset == [shape |-> 0, values |-> <<>>, compression |-> "none"]

WrIdle ==
    [pc |-> "idle", col |-> "", data |-> <<>>, storable |-> TRUE, had |-> FALSE,
     old |-> NoDataset]

LdIdle == [status |-> "idle", args |-> <<>>, reads |-> <<>>, data |-> <<>>]

RdIdle == [pc |-> "idle", op |-> "", arg |-> 0, handle |-> "none", result |-> "none"]

CsvIdle ==
    [pc |-> "idle", F_CSV |-> <<>>, CORES |-> 0, finished |-> {}, data |-> <<>>,
     df |-> <<>>]

\* The components a specification does not exercise stay as they are here.
AsmParked == h5 = <<>> /\ enum = <<>> /\ asm = [call |-> "none", res |-> Idle]

CsvParked == files = <<>> /\ csv = CsvIdle

StoreParked == store = <<>> /\ wr = WrIdle /\ last = <<>> /\ ld = LdIdle

WritersParked == disk = [exists |-> FALSE, groups |-> <<>>] /\ proc = <<>> /\ rd = RdIdle

InitAsm ==
    /\ \E n \in 1..MaxShards : \E g \in ShardSeqs(1, n, MaxRows, MaxRows) :
           h5 = [m \in {"unigram"} |-> g]
    /\ tiebreak \in TieBreaks
    /\ enum = <<>>
    /\ asm = [call |-> "none", res |-> Idle]
    /\ CsvParked /\ StoreParked /\ WritersParked

\* One call of load_document_vectors(score_method, use_reduced).
LoadDocumentVectors ==
    /\ asm.call = "none"
    /\ \E score_method \in ScoreMethods :
         \E order \in Perms(IF score_method \in DOMAIN h5
                            THEN Len(h5[score_method]) ELSE 0) :
              /\ enum' = order
              /\ asm' = [call |-> score_method,
                         res |-> LoadResult(h5, score_method, order, tiebreak)]
    /\ UNCHANGED <<h5, tiebreak, csvVars, storeVars, wrVars>>

NextAsm == LoadDocumentVectors

SpecAsm == InitAsm /\ [][NextAsm]_vars

--------------------------------------------------------------------------
(* Claims about the Document Vector Assembler (SpecAsm) *)

Called == asm.call # "none"

KnownMethod == asm.call \in DOMAIN h5

Group == h5[asm.call]

StackedRefs == Concat([k \in 1..Len(Group) |-> Group[k].refs], enum, 1)

StackedRows == Concat([k \in 1..Len(Group) |-> Group[k].vecs], enum, 1)

\* Every shard's vector array has as many rows as its _ref array.
AllAligned == \A k \in 1..Len(Group) : Len(Group[k].vecs) = Len(Group[k].refs)

\* No _ref value occurs twice in the group.
RefsDistinct ==
    \A i, j \in 1..Len(StackedRefs) : StackedRefs[i] = StackedRefs[j] => i = j

Ascending(a) == \A i, j \in 1..Len(a) : i < j => a[i] <= a[j]

\* The orders g.keys() may enumerate the shards in.
Orders == Perms(IF KnownMethod THEN Len(Group) ELSE 0)

\* Every enumeration order of the shards gives the outcome this call gave.
OrderIndependent ==
    \A order \in Orders : LoadResult(h5, asm.call, order, tiebreak) = asm.res

\* C1 as stated, on shards whose two arrays agree in length: for any shard
\* contents, a _ref held by more than one shard included, the outcome of
\* load_document_vectors is the same for every enumeration order of the shards.
C1_OrderIndependentAlways ==
    (Called /\ KnownMethod /\ AllAligned) => OrderIndependent

\* C1 as amended: when no _ref value occurs twice in the group and every shard's
\* vector array has as many rows as its _ref array, the outcome of
\* load_document_vectors (sorted _refs, row-aligned matrix) is the same for every
\* enumeration order of the shards.
C1_OrderIndependentDistinct ==
    (Called /\ KnownMethod /\ AllAligned /\ RefsDistinct) => OrderIndependent

\* C1 witness: a successful call over two or more shards, enumerated in another
\* order than the names', whose stacked _refs were not ascending and hold no
\* duplicate.
C1_Witness ==
    /\ Called /\ KnownMethod /\ AllAligned /\ RefsDistinct
    /\ asm.res.status = "ok"
    /\ Len(Group) >= 2
    /\ enum # Identity(Len(Group))
    /\ ~Ascending(StackedRefs)

C3_AnyMismatchFails ==
    (Called /\ KnownMethod /\ ~AllAligned) => asm.res.status = "ShapeMismatch"

\* C3 as amended: whenever the stacked matrix and the stacked _ref array differ in
\* length (the shards' vector rows in total against their _ref entries in total),
\* the call fails with ShapeMismatch and returns no result.
C3_TotalMismatchFails ==
    (Called /\ KnownMethod /\ Len(StackedRows) # Len(StackedRefs)) =>
        /\ asm.res.status = "ShapeMismatch"
        /\ asm.res._refs = <<>>
        /\ asm.res.docv = <<>>

\* C3 witness: the call failed with ShapeMismatch on a group of two shards of
\* which one is aligned and the other has more vector rows than _ref entries.
C3_Witness ==
    /\ Called /\ KnownMethod
    /\ asm.res.status = "ShapeMismatch"
    /\ Len(Group) = 2
    /\ \E k \in 1..2 : Len(Group[k].vecs) = Len(Group[k].refs)
    /\ \E k \in 1..2 : Len(Group[k].vecs) > Len(Group[k].refs)

--------------------------------------------------------------------------
(* Keyed Table Loader: load_ORG_data *)

\* A CSV file is a table with the column _ref and the requested payload columns.
\* A row's payload is represented by the place the row was read from,
\* <<file, row>>, so that the rows of the result can be traced back to the files.
RECURSIVE FileSeqs(_, _, _)
\* The sequences of n files, named f, f+1, ..., with at most `nrows` rows in all.
FileSeqs(f, n, nrows) ==
    IF n = 0 THEN {<<>>}
    ELSE UNION {
           {<<refs>> \o rest : rest \in FileSeqs(f + 1, n - 1, nrows - Len(refs))} :
           refs \in RefArrays(nrows)}

\* pd.read_csv(f, usecols=cols) on file number f: the file's rows, in file order.
simple_CSV_read(fs, f) ==
    [r \in 1..Len(fs[f]) |-> [_ref |-> fs[f][r], payload |-> <<f, r>>]]

\* pd.concat(data): the tables one after the other, in list order.
PdConcat(data) == Concat(data, Identity(Len(data)), 1)

\* Mutant of SortValues: the rows are left in concatenation order.
SortValues_Unsorted(rows, tb) == rows

\* Mutant of SortValues: only the key column is sorted, the payload stays in place.
SortValues_KeysOnly(rows, tb) ==
    LET idx == Argsort([i \in 1..Len(rows) |-> rows[i]._ref], tb)
    IN  [i \in 1..Len(rows) |-> [_ref |-> rows[idx[i]]._ref, payload |-> rows[i].payload]]

\* df.sort_values('_ref'): whole rows, ascending by _ref (default kind='quicksort').
SortValues(rows, tb) ==
    Take(rows, Argsort([i \in 1..Len(rows) |-> rows[i]._ref], tb))

\* df.set_index('_ref'): the column _ref becomes the index and is no column any more.
SetIndex(rows) ==
    [i \in 1..Len(rows) |-> [index |-> rows[i]._ref, payload |-> rows[i].payload]]

\* df['_ref'] = df.index
AddRefColumn(rows) ==
    [i \in 1..Len(rows) |->
        [index |-> rows[i].index, payload |-> rows[i].payload, _ref |-> rows[i].index]]

\* Lines 138-141: the table made of the per-file tables `data`.
Frame(data, tb) == AddRefColumn(SetIndex(SortValues(PdConcat(data), tb)))

InitCsv ==
    /\ \E n \in 1..MaxFiles : files \in FileSeqs(1, n, MaxCsvRows)
    /\ tiebreak \in TieBreaks
    /\ csv = CsvIdle
    /\ AsmParked /\ StoreParked /\ WritersParked

\* load_ORG_data up to the start of the parallel map: grab_files has listed the
\* files in some order, CORES is -1 (all cores) or 1 (serial).
StartLoad ==
    /\ csv.pc = "idle"
    /\ \E F_CSV \in Perms(Len(files)) : \E CORES \in {-1, 1} :
         csv' = [pc |-> "map", F_CSV |-> F_CSV, CORES |-> CORES, finished |-> {},
                 data |-> [i \in 1..Len(files) |-> <<>>], df |-> <<>>]
    /\ UNCHANGED <<files, tiebreak, asmVars, storeVars, wrVars>>

\* One task of the parallel map finishes: simple_CSV_read(F_CSV[i], cols).  With
\* one core the tasks run in list order; with all cores they finish in any order.
\* joblib.Parallel puts each result at its task's place in the list.
ReadFile ==
    /\ csv.pc = "map"
    /\ \E i \in 1..Len(csv.data) :
         /\ i \notin csv.finished
         /\ csv.CORES = 1 => \A j \in 1..(i - 1) : j \in csv.finished
         /\ csv' = [csv EXCEPT !.finished = @ \cup {i},
                               !.data[i] = simple_CSV_read(files, csv.F_CSV[i])]
    /\ UNCHANGED <<files, tiebreak, asmVars, storeVars, wrVars>>

\* All tasks have finished: concat, sort, index, and return df.
Collect ==
    /\ csv.pc = "map"
    /\ csv.finished = 1..Len(csv.data)
    /\ csv' = [csv EXCEPT !.pc = "done", !.df = Frame(csv.data, tiebreak)]
    /\ UNCHANGED <<files, tiebreak, asmVars, storeVars, wrVars>>

NextCsv == StartLoad \/ ReadFile \/ Collect

SpecCsv == InitCsv /\ [][NextCsv]_vars

--------------------------------------------------------------------------
(* Claims about the Keyed Table Loader (SpecCsv) *)

Loaded == csv.pc = "done"

\* The table load_ORG_data returns when grab_files lists the files in `order`.
FrameFor(order) ==
    Frame([i \in 1..Len(order) |-> simple_CSV_read(files, order[i])], tiebreak)

AllFileRefs == Concat(files, Identity(Len(files)), 1)

\* No _ref value occurs in two rows of the input.
FileRefsDistinct ==
    \A i, j \in 1..Len(AllFileRefs) : AllFileRefs[i] = AllFileRefs[j] => i = j

\* The table returned is the one every enumeration order of the files gives.
SameForEveryOrder == \A order \in Perms(Len(files)) : csv.df = FrameFor(order)

\* C4 as stated: for any files, a _ref present in more than one file included,
\* load_ORG_data returns the same table whatever the order grab_files lists the
\* files in, with one core or all cores.
C4_OrderIndependentAlways == Loaded => SameForEveryOrder

\* C4 as amended: when no _ref value occurs in more than one row of the input,
\* load_ORG_data returns the same table (row sequence and payloads) whatever the
\* order grab_files lists the files in, with one core or all cores and the tasks
\* finishing in any order.
C4_OrderIndependentDistinct == (Loaded /\ FileRefsDistinct) => SameForEveryOrder

\* C4 witness: a parallel load of two or more files with distinct _refs, listed in
\* another order than the names', whose concatenation was not ascending.
C4_Witness ==
    /\ Loaded /\ FileRefsDistinct
    /\ csv.CORES = -1
    /\ Len(files) >= 2
    /\ csv.F_CSV # Identity(Len(files))
    /\ ~Ascending([i \in 1..Len(PdConcat(csv.data)) |-> PdConcat(csv.data)[i]._ref])

--------------------------------------------------------------------------
(* Grouped Artifact Store: save_h5 and load_h5_file on one container *)

\* The dataset names used, in the order h5.keys() lists them.
NameOrder == <<"D", "E">>

Names == {NameOrder[i] : i \in 1..Len(NameOrder)}

Arrays == UNION {[1..n -> 0..1] : n \in 1..MaxLen}

\* What save_h5 is given as data: an array, or something h5py cannot store (None,
\* an array of Python objects), for which create_dataset raises.
Inputs ==
    {[data |-> a, storable |-> TRUE] : a \in Arrays}
        \cup {[data |-> <<>>, storable |-> FALSE]}

ArgSeqs == UNION {[1..n -> Names] : n \in 0..MaxArgs}

\* What create_dataset(col, data=data, compression=compression) stores.
Dataset(data, compression) ==
    [shape |-> Len(data), values |-> data, compression |-> compression]

\* Mutant of ReadSlice: h5[key][0], the first element instead of the whole array.
ReadSlice_First(ds) == <<ds.values[1]>>

\* h5[key][:]
ReadSlice(ds) == SubSeq(ds.values, 1, ds.shape)

\* Mutant of DeleteDataset: the old dataset is not deleted.
DeleteDataset_Keep(st, col) == st

\* if col in h5: del h5[col]
DeleteDataset(st, col) == [k \in DOMAIN st \ {col} |-> st[k]]

\* h5.create_dataset(col, ...) once it succeeds.
CreateDataset(st, col, data, compression) ==
    [k \in DOMAIN st \cup {col} |->
        IF k = col THEN Dataset(data, compression) ELSE st[k]]

\* create_dataset raises: the data cannot be stored, or the name is already there.
CreateRaises(st, col, storable) == ~storable \/ col \in DOMAIN st

\* h5.keys()
Keys(st) == SelectSeq(NameOrder, LAMBDA k : k \in DOMAIN st)

Range(q) == {q[i] : i \in 1..Len(q)}

\* The first loop of load_h5_file (lines 34-36): every key is in h5.
AllPresent(st, args) == \A i \in 1..Len(args) : args[i] \in DOMAIN st

\* The keys before the first one that is not in h5.
RECURSIVE PresentPrefix(_, _)
PresentPrefix(st, args) ==
    IF args = <<>> \/ Head(args) \notin DOMAIN st THEN <<>>
    ELSE <<Head(args)>> \o PresentPrefix(st, Tail(args))

\* The second loop (lines 38-39): data[key] = h5[key][:], key by key.
ReadDatasets(st, keys) ==
    [reads |-> keys, data |-> [k \in Range(keys) |-> ReadSlice(st[k])]]

\* Mutant of load_h5_file: one loop that checks and reads each key in turn.
load_h5_file_OneLoop(st, args0) ==
    LET args == IF args0 = <<>> THEN Keys(st) ELSE args0
        got == ReadDatasets(st, PresentPrefix(st, args))
    IN  [status |-> IF AllPresent(st, args) THEN "ok" ELSE "DatasetNotFound",
         args |-> args0, reads |-> got.reads, data |-> got.data]

\* load_h5_file(f_h5, *args): ValueError ("DatasetNotFound") or the mapping read.
\* `reads` lists the datasets read from the file, in order.
load_h5_file(st, args0) ==
    LET args == IF args0 = <<>> THEN Keys(st) ELSE args0
    IN  IF ~AllPresent(st, args)
        THEN [status |-> "DatasetNotFound", args |-> args0, reads |-> <<>>,
              data |-> <<>>]
        ELSE LET got == ReadDatasets(st, args)
             IN  [status |-> "ok", args |-> args0, reads |-> got.reads,
                  data |-> got.data]

InitStore ==
    /\ store = <<>>
    /\ wr = WrIdle
    /\ last = <<>>
    /\ ld = LdIdle
    /\ tiebreak = "first"
    /\ AsmParked /\ CsvParked /\ WritersParked

\* save_h5(h5, col, data), lines 71-72: the call starts and deletes col if it is
\* there.
SaveDelete ==
    /\ wr.pc \in {"idle", "failed"}
    /\ \E col \in Names : \E in \in Inputs :
         /\ wr' = [pc |-> "create", col |-> col, data |-> in.data,
                   storable |-> in.storable, had |-> col \in DOMAIN store,
                   old |-> IF col \in DOMAIN store THEN store[col] ELSE NoDataset]
         /\ store' = DeleteDataset(store, col)
    /\ ld' = LdIdle
    /\ UNCHANGED <<last, tiebreak, asmVars, csvVars, wrVars>>

\* save_h5, line 73: create_dataset writes the new dataset, or raises and leaves
\* the container as the deletion left it.
SaveCreate ==
    /\ wr.pc = "create"
    /\ IF CreateRaises(store, wr.col, wr.storable)
       THEN /\ wr' = [wr EXCEPT !.pc = "failed"]
            /\ store' = store
       ELSE /\ wr' = WrIdle
            /\ store' = CreateDataset(store, wr.col, wr.data, "gzip")
    /\ last' = [k \in DOMAIN last \cup {wr.col} |->
                  IF k = wr.col
                  THEN [data |-> wr.data, storable |-> wr.storable,
                        ok |-> ~CreateRaises(store, wr.col, wr.storable),
                        replaced |-> wr.had /\ wr.old # Dataset(wr.data, "gzip")]
                  ELSE last[k]]
    /\ UNCHANGED <<ld, tiebreak, asmVars, csvVars, wrVars>>

\* One call of load_h5_file(f_h5, *args), between two save_h5 calls.
LoadH5File ==
    /\ wr.pc # "create"
    /\ \E args \in ArgSeqs : ld' = load_h5_file(store, args)
    /\ UNCHANGED <<store, wr, last, tiebreak, asmVars, csvVars, wrVars>>

NextStore == SaveDelete \/ SaveCreate \/ LoadH5File

SpecStore == InitStore /\ [][NextStore]_vars

--------------------------------------------------------------------------
(* Claims about the store (SpecStore) *)

Requested == IF ld.args = <<>> THEN Keys(store) ELSE ld.args

\* C6: after any sequence of save_h5 calls, for every name whose most recent
\* save_h5 call was given an array, that call succeeded, the container holds
\* exactly that array (values and length) under the name, and a load_h5_file that
\* asks for the name and succeeds returns exactly that array.
C6_LastWriterWins ==
    ld.status # "idle" =>
        \A D \in DOMAIN last :
            last[D].storable =>
                /\ last[D].ok
                /\ D \in DOMAIN store
                /\ ReadSlice(store[D]) = last[D].data
                /\ (D \in Range(Requested) /\ AllPresent(store, Requested)) =>
                       /\ ld.status = "ok"
                       /\ ld.data[D] = last[D].data

\* C6 witness: D was written twice with different arrays and read back.
C6_Witness ==
    /\ ld.status = "ok"
    /\ "D" \in Range(ld.args)
    /\ "D" \in DOMAIN last
    /\ last["D"].ok
    /\ last["D"].replaced
    /\ Len(ld.data["D"]) = 2

\* C7: when a requested name is absent, load_h5_file fails with DatasetNotFound
\* having read no dataset and returning no mapping, wherever the absent name stands
\* in the request, and leaves the store as it was.
C7_MissingIsAllOrNothing ==
    [][(ld' # ld /\ ld'.status # "idle") =>
         /\ store' = store
         /\ (~AllPresent(store, ld'.args)) =>
                /\ ld'.status = "DatasetNotFound"
                /\ ld'.reads = <<>>
                /\ ld'.data = <<>>
         /\ ld'.status = "DatasetNotFound" => ~AllPresent(store, ld'.args)]_vars

\* C7 witness: a request of two names, the first present and the second absent,
\* failed with DatasetNotFound.
C7_Witness ==
    /\ ld.status = "DatasetNotFound"
    /\ Len(ld.args) = 2
    /\ ld.args[1] \in DOMAIN store
    /\ ld.args[2] \notin DOMAIN store

\* C10 as stated: while save_h5 replaces a dataset that was there, and after it
\* failed, the dataset is present with either the complete old content or the
\* complete new content.
C10_AtomicReplace ==
    (wr.pc \in {"create", "failed"} /\ wr.had) =>
        /\ wr.col \in DOMAIN store
        /\ store[wr.col] \in {wr.old, Dataset(wr.data, "gzip")}

--------------------------------------------------------------------------
(* Concurrent writers: touch_h5, get_h5save_object, save_h5; readers' `with` *)

\* Worker w runs g = get_h5save_object(f_db, w); save_h5(g, "V", w): each worker
\* writes the dataset "V" into the group named after itself.
Workers == 1..NumWorkers

\* h5py.File(f_db, 'w'): creates the file, or truncates the one that is there.
OpenW(d) == [exists |-> TRUE, groups |-> <<>>]

\* h5py.File(f_db, 'r+'): opens the file as it is.
OpenRW(d) == d

\* h5.require_group(method)
RequireGroup(d, method) ==
    [d EXCEPT !.groups =
        [k \in DOMAIN d.groups \cup {method} |->
            IF k \in DOMAIN d.groups THEN d.groups[k] ELSE <<>>]]

\* if col in g: del g[col], on the group named method.
DeleteInGroup(d, method, col) ==
    IF method \in DOMAIN d.groups
    THEN [d EXCEPT !.groups[method] = DeleteDataset(d.groups[method], col)]
    ELSE d

\* g.create_dataset(col, data=data), on the group named method.
CreateInGroup(d, method, col, data) ==
    [d EXCEPT !.groups =
        [k \in DOMAIN d.groups \cup {method} |->
            IF k = method
            THEN [c \in (IF k \in DOMAIN d.groups THEN DOMAIN d.groups[k] ELSE {})
                          \cup {col} |->
                      IF c = col THEN data ELSE d.groups[k][c]]
            ELSE d.groups[k]]]

\* The other components' variables, which the writers and the reader leave alone.
RestUnchanged == UNCHANGED <<tiebreak, asmVars, csvVars, storeVars>>

InitWriters ==
    /\ disk \in {[exists |-> e, groups |-> <<>>] : e \in BOOLEAN}
    /\ proc = [w \in Workers |-> [pc |-> "exists", ex |-> FALSE, handle |-> "none"]]
    /\ rd = RdIdle
    /\ tiebreak = "first"
    /\ AsmParked /\ CsvParked /\ StoreParked

\* touch_h5, line 55: os.path.exists(f_db).
TouchExists(w) ==
    /\ proc[w].pc = "exists"
    /\ proc' = [proc EXCEPT ![w].pc = "open", ![w].ex = disk.exists]
    /\ UNCHANGED <<disk, rd>>
    /\ RestUnchanged

\* touch_h5, lines 56-59: open with 'w' if the file was not there at line 55,
\* with 'r+' otherwise; the open handle is returned.
TouchOpen(w) ==
    /\ proc[w].pc = "open"
    /\ disk' = IF proc[w].ex THEN OpenRW(disk) ELSE OpenW(disk)
    /\ proc' = [proc EXCEPT ![w].pc = "group", ![w].handle = "open"]
    /\ UNCHANGED rd
    /\ RestUnchanged

\* get_h5save_object, lines 65-66: require_group(method); the group is returned,
\* the file stays open.
GetGroup(w) ==
    /\ proc[w].pc = "group"
    /\ disk' = RequireGroup(disk, w)
    /\ proc' = [proc EXCEPT ![w].pc = "save"]
    /\ UNCHANGED rd
    /\ RestUnchanged

\* save_h5(g, "V", w), lines 71-72.
WorkerDelete(w) ==
    /\ proc[w].pc = "save"
    /\ disk' = DeleteInGroup(disk, w, "V")
    /\ proc' = [proc EXCEPT ![w].pc = "create"]
    /\ UNCHANGED rd
    /\ RestUnchanged

\* save_h5(g, "V", w), line 73.  If another worker's open has truncated the file
\* since g was obtained, g is a group of a file that is no longer there: the write
\* is lost, or lands in the file again when this worker's library flushes.
WorkerCreate(w) ==
    /\ proc[w].pc = "create"
    /\ \/ disk' = CreateInGroup(disk, w, "V", w)
       \/ w \notin DOMAIN disk.groups /\ disk' = disk
    /\ proc' = [proc EXCEPT ![w].pc = "done"]
    /\ UNCHANGED rd
    /\ RestUnchanged

\* A reader enters `with h5py.File(f_h5, 'r') as h5:` in get_score_methods (line
\* 182) or load_document_vectors (line 208); opening a file that is not there
\* raises and opens nothing.
ReaderEnter ==
    /\ rd.pc \in {"idle", "returned", "raised"}
    /\ \E op \in {"get_score_methods", "load_document_vectors"} :
       \E score_method \in Workers :
         rd' = IF disk.exists
               THEN [pc |-> "body", op |-> op, arg |-> score_method,
                     handle |-> "open", result |-> "none"]
               ELSE [pc |-> "raised", op |-> op, arg |-> score_method,
                     handle |-> "none", result |-> "IOError"]
    /\ UNCHANGED <<disk, proc>>
    /\ RestUnchanged

\* The body of the `with` block: h5.keys() (line 183), or the assertion that
\* score_method is a group followed by the reads (lines 210-223).
ReaderBody ==
    /\ rd.pc = "body"
    /\ rd' = [rd EXCEPT
                !.pc = "exit",
                !.result = IF rd.op = "get_score_methods" THEN "keys"
                           ELSE IF rd.arg \in DOMAIN disk.groups THEN "vectors"
                           ELSE "UnknownScoreMethod"]
    /\ UNCHANGED <<disk, proc>>
    /\ RestUnchanged

\* Leaving the `with` block, by return or by exception: the file is closed.
ReaderExit ==
    /\ rd.pc = "exit"
    /\ rd' = [rd EXCEPT
                !.pc = IF rd.result = "UnknownScoreMethod" THEN "raised" ELSE "returned",
                !.handle = "closed"]
    /\ UNCHANGED <<disk, proc>>
    /\ RestUnchanged

NextWriters ==
    \/ \E w \in Workers : TouchExists(w)
    \/ \E w \in Workers : TouchOpen(w)
    \/ \E w \in Workers : GetGroup(w)
    \/ \E w \in Workers : WorkerDelete(w)
    \/ \E w \in Workers : WorkerCreate(w)
    \/ ReaderEnter
    \/ ReaderBody
    \/ ReaderExit

SpecWriters == InitWriters /\ [][NextWriters]_vars

--------------------------------------------------------------------------
(* Claims about concurrent writers and handles (SpecWriters) *)

AllDone == \A w \in Workers : proc[w].pc = "done"

\* C8 as stated: when every worker has finished, the store holds every worker's
\* group and dataset, whatever the interleaving and whether or not the file was
\* there at the start.
C8_DisjointWritersSafe ==
    AllDone =>
        \A w \in Workers :
            /\ w \in DOMAIN disk.groups
            /\ "V" \in DOMAIN disk.groups[w]
            /\ disk.groups[w]["V"] = w

\* C9 as stated: no operation of the store layer has returned or failed while a
\* handle it opened is still open.
C9_ScopedAcquisition ==
    /\ \A w \in Workers : proc[w].pc = "done" => proc[w].handle # "open"
    /\ rd.pc \in {"returned", "raised"} => rd.handle # "open"

===========================================================================
